---- MODULE Spec2Model ----
(***************************************************************************)
(* Model of neuralnetworks/las_net.py: the training control loop of        *)
(* Nnet.train with its validation / rollback logic, and the decode loop of *)
(* Nnet.decode.                                                            *)
(*                                                                         *)
(* Abstractions.  The parameters of the network are a record [id, err]:    *)
(* id is a fresh number given to the result of every update (and of every  *)
(* random initialisation), err is the validation error trainer.evaluate    *)
(* computes for these parameters on the fixed validation set (evaluation   *)
(* is a function of the parameters, so the nondeterminism is in update).   *)
(* The learning rate is the number of halvings applied to it.  Loss values *)
(* are not tracked: a loss log entry is its step tag.  The batch           *)
(* dispenser is its cursor, counted in batches from the position split()   *)
(* leaves it at.                                                           *)
(***************************************************************************)
EXTENDS Integers, Sequences, FiniteSets, TLC

\* ------------------------------------------------------------------ bounds
MaxErr == 2          \* validation errors range over 0..MaxErr
MaxRetries == 1      \* valid_retries ranges over -1..MaxRetries
MaxHalvings == 3     \* cap on rollbacks when valid_retries < 0 (no limit in the code)
MaxUtts == 3         \* utterances of the reader in SpecDecode

Errors == 0..MaxErr
None == -1           \* a local that is not assigned / Python's None

\* ---------------------------------------------------------- configurations
\* the scenario of the spec's example, for every retry limit
ScenarioConfs ==
    { [num_batches |-> 10, num_epochs |-> 1, valid_batches |-> 1,
       valid_frequency |-> 5, check_freq |-> 5, valid_retries |-> r,
       valid_adapt |-> "True", starting_step |-> 0] : r \in 0..MaxRetries }

SmallConfs ==
    { c \in [num_batches : {2, 3}, num_epochs : {1, 2},
             valid_batches : {-1, 0, 2},
             valid_frequency : {2, 3}, check_freq : {1, 2},
             valid_retries : (-1)..MaxRetries, valid_adapt : {"True", "False"},
             starting_step : {0, 2}] :
        /\ c.starting_step <= c.num_batches * c.num_epochs
        /\ c.starting_step % c.check_freq = 0
        /\ c.num_batches * c.num_epochs \in {3, 4}
        /\ c.valid_batches < 0 => c.valid_retries = 0 }

Confs == ScenarioConfs \cup SmallConfs

VARIABLES
    net_conf,        \* self.net_conf: the [nnet] options train reads
    dispenser,       \* the batch dispenser: [num_batches, cursor]
    pc,              \* position of train in its code
    val_data,        \* TRUE when the validation set was drawn, FALSE for None
    num_steps, step,
    validation_error, validation_step, num_retries, current_error,
    loss_lst, val_loss_lst, val_error_list,
    trainer,         \* the session: [params, halvings]
    ckpt,            \* the save directory: [training, validated, final, plot]
    next_id,         \* the id the next new parameters get
    saved_steps,     \* history: the N of training/step<N> saved by this call
    regressions,     \* history: regressions since the last acceptance
    saved_at,        \* history: the loop state when training/step<N> was saved
    resume_ref,      \* history: saved_at[starting_step] at the last restart
    restarts,        \* history: number of restarts
    rollbacks,       \* history: rollbacks of this call
    step_ids,        \* history: step -> id of the parameters the session had
                     \*          when it last stood at that step
    reader,          \* the feature reader of decode: [utts, utt_ind, sentinel]
    nbests,          \* decode's result dict: utterance id -> hypotheses
    dpc,             \* position of decode in its code
    returned,        \* history: ids get_utt returned with looped = False
    ndecoded         \* history: number of decoder calls per utterance id

confvars  == <<net_conf>>
trainvars == <<dispenser, pc, val_data, num_steps, step, validation_error,
               validation_step, num_retries, current_error, loss_lst,
               val_loss_lst, val_error_list, trainer, ckpt, next_id>>
histvars  == <<saved_steps, regressions, saved_at, resume_ref, restarts,
               rollbacks, step_ids>>
decvars   == <<reader, nbests, dpc, returned, ndecoded>>
vars == <<confvars, trainvars, histvars, decvars>>

\* --------------------------------------------------------------- collaborators
\* no trainer state: a session not started, a file not written
NoCkpt == [params |-> [id |-> None, err |-> None], halvings |-> None]
NoSnap == [step |-> None, cursor |-> None, validation_step |-> None,
           validation_error |-> None, num_retries |-> None, halvings |-> None,
           params |-> NoCkpt.params, validated |-> NoCkpt]

\* d[k] = v of a Python dict, and a file written under a new or an old name
DictSet(d, k, v) == [x \in DOMAIN d \cup {k} |-> IF x = k THEN v ELSE d[x]]

\* dispenser.get_batch(), skip_batch(), return_batch(), n times; split()
DispGet(d, n)    == [d EXCEPT !.cursor = @ + n]
DispSkip(d, n)   == [d EXCEPT !.cursor = @ + n]
DispReturn(d, n) == [d EXCEPT !.cursor = @ - n]
DispSplit(d)     == [d EXCEPT !.cursor = 0]

\* trainer.initialize(), update(), evaluate(), halve_learning_rate(),
\* save_trainer(), restore_trainer()
TrainerInit(id, e)      == [params |-> [id |-> id, err |-> e], halvings |-> 0]
TrainerUpdate(t, id, e) == [t EXCEPT !.params = [id |-> id, err |-> e]]
Evaluate(t)             == t.params.err
HalveLearningRate(t)    == [t EXCEPT !.halvings = @ + 1]
SaveTrainer(t)          == t
RestoreTrainer(saved)   == saved

\* ------------------------------------------------------------ train: helpers
\* line 92: int(self.net_conf['valid_batches']) > 0
HasValData_m(conf) == conf.valid_batches >= 0
HasValData(conf) == conf.valid_batches > 0

\* line 106
NumSteps(d, conf) == d.num_batches * conf.num_epochs

\* line 172: while step < num_steps
LoopContinues_m(s, ns) == s <= ns
LoopContinues(s, ns) == s < ns

\* line 179: the entry of the training-loss log, tagged with the step before
\* the increment
LossEntry_m(s) == s + 1
LossEntry(s) == s

\* lines 207-212: the session after the restore of the validated model and
\* the halving of its learning rate
RollbackTrainer_m(t, validated) == HalveLearningRate(t)
RollbackTrainer_m2(t, validated) == RestoreTrainer(validated)
RollbackTrainer(t, validated) == HalveLearningRate(RestoreTrainer(validated))

\* lines 113-114: number of skip_batch calls
SkipCount_m(conf) == 0
SkipCount(conf) == conf.starting_step

\* line 189-190: the validation trigger
ValidationDue_m(s, conf, vd) == (s + 1) % conf.valid_frequency = 0 /\ vd
ValidationDue(s, conf, vd) == s % conf.valid_frequency = 0 /\ vd

\* line 198
AdaptEnabled_m(conf) == TRUE
AdaptEnabled(conf) == conf.valid_adapt = "True"

\* line 201
Regressed_m(cur, best) == cur >= best
Regressed(cur, best) == cur > best

\* line 204: number of return_batch calls of a rollback
RewindCount_m(s, vstep) == s - vstep - 1
RewindCount(s, vstep) == s - vstep

\* line 218
RollbackStep_m(vstep) == 0
RollbackStep(vstep) == vstep

\* line 220
RetriesExhausted_m(n, conf) == n = conf.valid_retries + 1
RetriesExhausted(n, conf) == n = conf.valid_retries

\* line 241
CheckpointDue_m(s, conf) ==
    s % conf.check_freq = 0 /\ s < conf.num_batches * conf.num_epochs
CheckpointDue_m2(s, conf) == (s + 1) % conf.check_freq = 0
CheckpointDue(s, conf) == s % conf.check_freq = 0

\* the loop state a resumed run is compared with
Snapshot == [step |-> step, cursor |-> dispenser.cursor,
             validation_step |-> validation_step,
             validation_error |-> validation_error,
             num_retries |-> num_retries, halvings |-> trainer.halvings,
             params |-> trainer.params, validated |-> ckpt.validated]

\* ------------------------------------------------------------------- Init
\* A run that starts at starting_step > 0 finds the step-tagged checkpoints
\* an earlier run with these options wrote up to that step; training maps the
\* N of the files training/step<N> that exist to their contents.
InitStore(conf, e, h) ==
    [training  |-> [n \in {m \in 1..conf.starting_step :
                              m % conf.check_freq = 0} |->
                      [params |-> [id |-> 0 - n - 1, err |-> e], halvings |-> h]],
     validated |-> NoCkpt, final |-> NoCkpt, plot |-> <<>>]

InitTrain ==
    /\ net_conf \in Confs
    /\ dispenser = [num_batches |-> net_conf.num_batches, cursor |-> 0]
    /\ pc = "start"
    /\ val_data = FALSE
    /\ num_steps = 0 /\ step = 0
    /\ validation_error = None /\ validation_step = None
    /\ num_retries = None /\ current_error = None
    /\ loss_lst = <<>> /\ val_loss_lst = <<>> /\ val_error_list = <<>>
    /\ trainer = NoCkpt
    /\ \E e \in Errors, h \in 0..1 :
          ckpt = InitStore(net_conf, IF net_conf.starting_step > 0 THEN e ELSE 0,
                                     IF net_conf.starting_step > 0 THEN h ELSE 0)
    /\ next_id = 1
    /\ saved_steps = {}
    /\ regressions = 0
    /\ saved_at = <<>>
    /\ resume_ref = NoSnap
    /\ restarts = 0
    /\ rollbacks = 0
    /\ step_ids = <<>>

\* one id more than the longest reader holds, so that the wrap can hand out
\* an utterance that was not read
UttIds == 1..(MaxUtts + 1)

\* the readers: finitely many distinct utterances, then a wrap that hands out
\* some utterance (the first one again, or any other) with looped = True
Readers ==
    { [utts |-> u, utt_ind |-> 0, sentinel |-> x] :
        u \in { q \in UNION { [1..n -> UttIds] : n \in 0..MaxUtts } :
                  \A i, j \in DOMAIN q : q[i] = q[j] => i = j },
        x \in UttIds }

InitDecodeIdle ==
    /\ reader = [utts |-> <<>>, utt_ind |-> 0, sentinel |-> 1]
    /\ nbests = <<>>
    /\ dpc = "idle"
    /\ returned = {}
    /\ ndecoded = [u \in UttIds |-> 0]

Init == InitTrain /\ InitDecodeIdle

\* ------------------------------------------------------------ train: actions
\* lines 91-169: the validation set, split, num_steps, the skip to the
\* starting step, the session, the restore and the initial validation
Setup ==
    /\ pc = "start"
    /\ net_conf.starting_step > 0 =>
          net_conf.starting_step \in DOMAIN ckpt.training
    /\ \E e0 \in Errors :
         LET vd == HasValData(net_conf)
             d1 == IF vd THEN DispGet(dispenser, net_conf.valid_batches)
                         ELSE dispenser
             d2 == DispSplit(d1)
             s0 == net_conf.starting_step
             d3 == DispSkip(d2, SkipCount(net_conf))
             t0 == TrainerInit(next_id, e0)
             t1 == IF s0 > 0 THEN RestoreTrainer(ckpt.training[s0]) ELSE t0
         IN  /\ val_data' = vd
             /\ dispenser' = d3
             /\ num_steps' = NumSteps(d2, net_conf)
             /\ step' = s0
             /\ trainer' = t1
             /\ next_id' = next_id + 1
             /\ loss_lst' = <<>>
             /\ IF vd
                THEN /\ validation_error' = Evaluate(t1)
                     /\ validation_step' = s0
                     /\ ckpt' = [ckpt EXCEPT !.validated = SaveTrainer(t1)]
                     /\ num_retries' = 0
                     /\ val_error_list' = <<<<s0, Evaluate(t1)>>>>
                     /\ val_loss_lst' = <<s0>>
                ELSE /\ UNCHANGED <<validation_error, validation_step, ckpt,
                                    num_retries>>
                     /\ val_error_list' = <<>>
                     /\ val_loss_lst' = <<>>
    /\ pc' = "loop"
    /\ regressions' = 0
    /\ rollbacks' = 0
    /\ step_ids' = (step' :> trainer'.params.id)
    /\ UNCHANGED <<net_conf, current_error, saved_steps, saved_at, resume_ref,
                   restarts, decvars>>

\* lines 172-190: the loop test, one batch, one update, the increment and
\* the validation trigger
Update ==
    /\ pc = "loop"
    /\ LoopContinues(step, num_steps)
    /\ net_conf.valid_retries < 0 => trainer.halvings < MaxHalvings
    /\ \E e \in Errors :
          trainer' = TrainerUpdate(trainer, next_id, e)
    /\ next_id' = next_id + 1
    /\ dispenser' = DispGet(dispenser, 1)
    /\ loss_lst' = Append(loss_lst, LossEntry(step))
    /\ step' = step + 1
    /\ pc' = IF ValidationDue(step + 1, net_conf, val_data)
             THEN "validate" ELSE "checkpoint"
    /\ step_ids' = DictSet(step_ids, step + 1, next_id)
    /\ UNCHANGED <<net_conf, val_data, num_steps, validation_error,
                   validation_step, num_retries, current_error, val_loss_lst,
                   val_error_list, ckpt, saved_steps, regressions, saved_at,
                   resume_ref, restarts, rollbacks, decvars>>

\* lines 192-201: the evaluation, the logs and the choice of the branch
Validate ==
    /\ pc = "validate"
    /\ current_error' = Evaluate(trainer)
    /\ val_error_list' = Append(val_error_list, <<step, Evaluate(trainer)>>)
    /\ val_loss_lst' = Append(val_loss_lst, step)
    /\ pc' = IF AdaptEnabled(net_conf)
             THEN IF Regressed(Evaluate(trainer), validation_error)
                  THEN "rollback" ELSE "accept"
             ELSE "checkpoint"
    /\ UNCHANGED <<net_conf, dispenser, val_data, num_steps, step,
                   validation_error, validation_step, num_retries, loss_lst,
                   trainer, ckpt, next_id, histvars, decvars>>

\* lines 203-231: the regression branch
Rollback ==
    /\ pc = "rollback"
    /\ LET t1 == RollbackTrainer(trainer, ckpt.validated)
       IN  /\ dispenser' = DispReturn(dispenser,
                                       RewindCount(step, validation_step))
           /\ trainer' = t1
           /\ ckpt' = [ckpt EXCEPT !.validated = SaveTrainer(t1)]
    /\ step' = RollbackStep(validation_step)
    /\ IF RetriesExhausted(num_retries, net_conf)
       THEN /\ pc' = "final"
            /\ UNCHANGED num_retries
       ELSE /\ pc' = "loop"
            /\ num_retries' = num_retries + 1
    /\ regressions' = regressions + 1
    /\ rollbacks' = rollbacks + 1
    /\ step_ids' = [n \in {m \in DOMAIN step_ids : m <= validation_step} |->
                      step_ids[n]]
    /\ UNCHANGED <<net_conf, val_data, num_steps, validation_error,
                   validation_step, current_error, loss_lst, val_loss_lst,
                   val_error_list, next_id, saved_steps, saved_at, resume_ref,
                   restarts, decvars>>

\* lines 233-238: the acceptance branch
Accept ==
    /\ pc = "accept"
    /\ validation_error' = current_error
    /\ validation_step' = step
    /\ num_retries' = 0
    /\ ckpt' = [ckpt EXCEPT !.validated = SaveTrainer(trainer)]
    /\ pc' = "checkpoint"
    /\ regressions' = 0
    /\ UNCHANGED <<net_conf, dispenser, val_data, num_steps, step,
                   current_error, loss_lst, val_loss_lst, val_error_list,
                   trainer, next_id, saved_steps, saved_at, resume_ref,
                   restarts, rollbacks, step_ids, decvars>>

\* lines 240-243: the step-tagged checkpoint
Checkpoint ==
    /\ pc = "checkpoint"
    /\ IF CheckpointDue(step, net_conf)
       THEN /\ ckpt' = [ckpt EXCEPT
                          !.training = DictSet(@, step, SaveTrainer(trainer))]
            /\ saved_steps' = saved_steps \cup {step}
            /\ saved_at' = DictSet(saved_at, step, Snapshot)
       ELSE UNCHANGED <<ckpt, saved_steps, saved_at>>
    /\ pc' = "loop"
    /\ UNCHANGED <<net_conf, dispenser, val_data, num_steps, step,
                   validation_error, validation_step, num_retries,
                   current_error, loss_lst, val_loss_lst, val_error_list,
                   trainer, next_id, regressions, resume_ref, restarts,
                   rollbacks, step_ids, decvars>>

\* line 172: the loop test fails
LoopExit ==
    /\ pc = "loop"
    /\ ~LoopContinues(step, num_steps)
    /\ pc' = "final"
    /\ UNCHANGED <<net_conf, dispenser, val_data, num_steps, step,
                   validation_error, validation_step, num_retries,
                   current_error, loss_lst, val_loss_lst, val_error_list,
                   trainer, ckpt, next_id, histvars, decvars>>

\* lines 245-249: the final model and the metric logs
Final ==
    /\ pc = "final"
    /\ ckpt' = [ckpt EXCEPT !.final = SaveTrainer(trainer),
                            !.plot = <<loss_lst, val_loss_lst, val_error_list>>]
    /\ pc' = "done"
    /\ UNCHANGED <<net_conf, dispenser, val_data, num_steps, step,
                   validation_error, validation_step, num_retries,
                   current_error, loss_lst, val_loss_lst, val_error_list,
                   trainer, next_id, histvars, decvars>>

\* The uninterrupted run is killed, at any point, and train is called again
\* with starting_step set to a step whose checkpoint it left on disk: the
\* locals and the dispenser are new, the save directory is kept.
Restart ==
    /\ pc # "start"
    /\ restarts = 0
    /\ \E s \in DOMAIN saved_at \cap DOMAIN ckpt.training :
          /\ net_conf' = [net_conf EXCEPT !.starting_step = s]
          /\ resume_ref' = saved_at[s]
    /\ dispenser' = [num_batches |-> net_conf.num_batches, cursor |-> 0]
    /\ pc' = "start"
    /\ val_data' = FALSE
    /\ num_steps' = 0 /\ step' = 0
    /\ validation_error' = None /\ validation_step' = None
    /\ num_retries' = None /\ current_error' = None
    /\ loss_lst' = <<>> /\ val_loss_lst' = <<>> /\ val_error_list' = <<>>
    /\ trainer' = NoCkpt
    /\ saved_steps' = {}
    /\ regressions' = 0
    /\ restarts' = restarts + 1
    /\ rollbacks' = 0
    /\ step_ids' = <<>>
    /\ UNCHANGED <<ckpt, next_id, saved_at, decvars>>

Next == Setup \/ Update \/ Validate \/ Rollback \/ Accept \/ Checkpoint
           \/ LoopExit \/ Final

Spec == Init /\ [][Next]_vars

\* train is sequential code: every call it makes returns, so a step that can
\* be taken is taken
SpecFair == Spec /\ WF_vars(Next)

\* ----------------------------------------------------------------- decode
\* reader.get_utt(): the utterance id, its feature matrix (the id stands for
\* it), looped, and the reader afterwards
GetUtt(r) ==
    IF r.utt_ind < Len(r.utts)
    THEN [utt_id |-> r.utts[r.utt_ind + 1], utt_mat |-> r.utts[r.utt_ind + 1],
          looped |-> FALSE, reader |-> [r EXCEPT !.utt_ind = @ + 1]]
    ELSE [utt_id |-> r.sentinel, utt_mat |-> r.sentinel,
          looped |-> TRUE, reader |-> [r EXCEPT !.utt_ind = 1]]

\* line 292: decoder(utt_mat), the hypotheses of a feature matrix
Decoder(utt_mat) == <<"nbest", utt_mat>>

\* lines 288-293: the loop body after get_utt; nd counts the decoder calls
DecodeBody_m(nb, nd, utt_id, utt_mat, looped) ==
    [nbests |-> DictSet(nb, utt_id, Decoder(utt_mat)),
     ndecoded |-> [nd EXCEPT ![utt_id] = @ + 1]]
DecodeBody(nb, nd, utt_id, utt_mat, looped) ==
    IF looped
    THEN [nbests |-> nb, ndecoded |-> nd]
    ELSE [nbests |-> DictSet(nb, utt_id, Decoder(utt_mat)),
          ndecoded |-> [nd EXCEPT ![utt_id] = @ + 1]]

\* lines 266-280: the decoder, nbests = dict(), the restore of the final model
DecodeStart ==
    /\ dpc = "start"
    /\ ckpt.final # NoCkpt
    /\ nbests' = <<>>
    /\ dpc' = "loop"
    /\ UNCHANGED <<confvars, trainvars, histvars, reader, returned, ndecoded>>

\* lines 283-295: one iteration of the loop, and the return when looped
DecodeUtt ==
    /\ dpc = "loop"
    /\ LET g == GetUtt(reader)
           b == DecodeBody(nbests, ndecoded, g.utt_id, g.utt_mat, g.looped)
       IN  /\ reader' = g.reader
           /\ nbests' = b.nbests
           /\ ndecoded' = b.ndecoded
           /\ dpc' = IF g.looped THEN "done" ELSE "loop"
           /\ returned' = IF g.looped THEN returned
                                      ELSE returned \cup {g.utt_id}
    /\ UNCHANGED <<confvars, trainvars, histvars>>

\* decode is called in a process that does not train: the save directory
\* holds the final model of an earlier train call
InitDecode ==
    /\ net_conf \in ScenarioConfs
    /\ dispenser = [num_batches |-> net_conf.num_batches, cursor |-> 0]
    /\ pc = "idle"
    /\ val_data = FALSE
    /\ num_steps = 0 /\ step = 0
    /\ validation_error = None /\ validation_step = None
    /\ num_retries = None /\ current_error = None
    /\ loss_lst = <<>> /\ val_loss_lst = <<>> /\ val_error_list = <<>>
    /\ trainer = NoCkpt
    /\ \E e \in Errors :
          ckpt = [InitStore(net_conf, 0, 0) EXCEPT !.final = TrainerInit(0, e)]
    /\ next_id = 1
    /\ saved_steps = {}
    /\ regressions = 0
    /\ saved_at = <<>>
    /\ resume_ref = NoSnap
    /\ restarts = 0
    /\ rollbacks = 0
    /\ step_ids = <<>>
    /\ reader \in Readers
    /\ nbests = <<>>
    /\ dpc = "start"
    /\ returned = {}
    /\ ndecoded = [u \in UttIds |-> 0]

NextDecode == DecodeStart \/ DecodeUtt

SpecDecode == InitDecode /\ [][NextDecode]_vars

NextResume == Next \/ Restart

\* an uninterrupted run from step 0, killed and resumed from its checkpoints
InitResume ==
    /\ Init
    /\ net_conf \in SmallConfs
    /\ net_conf.starting_step = 0
    /\ net_conf.check_freq = 2

SpecResume == InitResume /\ [][NextResume]_vars

\* ===================================================================== claims
AfterSetup == pc \notin {"start", "idle"}

\* C1: the step counter never decreases except in a rollback (a validation
\* regression with valid_adapt enabled), and a rollback sets it to exactly
\* the current validation_step.
C1_StepMonotone ==
    [][ /\ step' < step =>
            /\ pc = "rollback"
            /\ net_conf.valid_adapt = "True"
            /\ current_error > validation_error
        /\ (pc = "rollback" /\ pc' # pc) =>
            /\ step' = validation_step
            /\ validation_step' = validation_step ]_vars

\* a rollback has just taken step back to an accepted step after the start
C1_Witness ==
    /\ pc = "loop"
    /\ regressions > 0
    /\ step = validation_step
    /\ validation_step > net_conf.starting_step
    /\ Len(loss_lst) > step - net_conf.starting_step

\* the validation trigger has fired in this iteration and its branch is done
Validated == pc = "checkpoint" /\ ValidationDue(step, net_conf, val_data)

\* C2 as stated: with valid_adapt not 'True', a validation at step s updates
\* validation_error / validation_step to this evaluation and saves the
\* 'validation/validated' checkpoint before training goes on.
C2_Original ==
    (Validated /\ net_conf.valid_adapt # "True") =>
        /\ validation_error = current_error
        /\ validation_step = step
        /\ ckpt.validated = SaveTrainer(trainer)

\* C2 amended: with valid_adapt not 'True', a validation at step s only
\* evaluates and appends to the two validation logs; validation_error,
\* validation_step, num_retries and the 'validation/validated' checkpoint
\* stay as the initial validation left them.
C2_NoBookkeeping ==
    (Validated /\ net_conf.valid_adapt # "True") =>
        /\ current_error = Evaluate(trainer)
        /\ val_error_list[Len(val_error_list)] = <<step, current_error>>
        /\ val_loss_lst[Len(val_loss_lst)] = step
        /\ validation_step = net_conf.starting_step
        /\ val_error_list[1] = <<net_conf.starting_step, validation_error>>
        /\ num_retries = 0
        /\ ckpt.validated.params.id # trainer.params.id
        /\ ckpt.validated.params.err = validation_error
        /\ regressions = 0

\* a validation without adaptation found a better error than the baseline
C2_Witness ==
    /\ Validated
    /\ net_conf.valid_adapt # "True"
    /\ current_error < validation_error
    /\ step > net_conf.starting_step

\* a resumed run has finished its setup and has not updated yet
JustResumed == restarts > 0 /\ pc = "loop" /\ loss_lst = <<>>

\* C3 as stated: a run resumed at S goes through the same (step, cursor,
\* validation_step, validation_error, num_retries, halvings) as the
\* uninterrupted run does from the point where it saved training/step<S>.
C3_Original ==
    JustResumed =>
        /\ step = resume_ref.step
        /\ dispenser.cursor = resume_ref.cursor
        /\ validation_step = resume_ref.validation_step
        /\ validation_error = resume_ref.validation_error
        /\ num_retries = resume_ref.num_retries
        /\ trainer.halvings = resume_ref.halvings

\* C3 amended: the resumed run enters its loop with the step, the cursor
\* position, the parameters and the halvings the uninterrupted run had when it
\* saved training/step<S>; validation_step is S, num_retries 0 and
\* validation_error the error at S (when validation is enabled), and the whole
\* loop state is that of the uninterrupted run exactly when that run had
\* validation_step = S (or no validation) at the save.
C3_Resume ==
    JustResumed =>
        /\ step = resume_ref.step
        /\ step = net_conf.starting_step
        /\ dispenser.cursor = resume_ref.cursor
        /\ trainer.params = resume_ref.params
        /\ trainer.halvings = resume_ref.halvings
        /\ val_data => /\ validation_step = step
                       /\ num_retries = 0
                       /\ validation_error = Evaluate(trainer)
        /\ (resume_ref.validation_step \in {step, None}) <=>
               (Snapshot = resume_ref)

\* a resumed run whose loop state differs from the uninterrupted run's
C3_Witness ==
    /\ JustResumed
    /\ resume_ref.validation_step \notin {step, None}
    /\ resume_ref.halvings > 0

\* a resumed run whose loop state is the uninterrupted run's
C3_WitnessSame ==
    /\ JustResumed
    /\ val_data
    /\ Snapshot = resume_ref

\* C4 as stated: when train is done, training/step<N> exists for every
\* multiple N of check_freq that is at most the final step.
C4_Original ==
    pc = "done" =>
        \A n \in 0..step :
            n % net_conf.check_freq = 0 => n \in DOMAIN ckpt.training

\* C4 amended: when train is done, it has written training/step<N> for every
\* multiple N of check_freq with starting_step < N <= final step.
C4_Checkpoints ==
    pc = "done" =>
        \A n \in (net_conf.starting_step + 1)..step :
            n % net_conf.check_freq = 0 =>
                /\ n \in saved_steps
                /\ n \in DOMAIN ckpt.training

\* train ended early, after a rollback, with checkpoints behind it
C4_Witness ==
    /\ pc = "done"
    /\ step < num_steps
    /\ step > net_conf.starting_step
    /\ step \in saved_steps

C6_Retries ==
    (AfterSetup /\ val_data /\ net_conf.valid_retries >= 0) =>
        /\ 0 <= num_retries
        /\ num_retries <= net_conf.valid_retries

\* the retries are used up and training goes on
C6_Witness ==
    /\ pc = "loop"
    /\ val_data
    /\ net_conf.valid_retries >= 1
    /\ num_retries = net_conf.valid_retries
    /\ regressions = num_retries

\* the rollback branch is taken in this step
RollbackStepTaken == pc = "rollback" /\ pc' # pc

\* C7: a regression found while num_retries = valid_retries ends the loop:
\* the validated checkpoint is restored, the learning rate halved, step set
\* to validation_step (at most num_steps), and no batch is got and no update
\* made afterwards; with no acceptance in between this is exactly the
\* (valid_retries + 1)-th regression in a row.
C7_Terminate ==
    [][ /\ (RollbackStepTaken /\ num_retries = net_conf.valid_retries) =>
            /\ pc' = "final"
            /\ trainer' = HalveLearningRate(RestoreTrainer(ckpt.validated))
            /\ step' = validation_step
            /\ step' <= num_steps
            /\ regressions' = net_conf.valid_retries + 1
        /\ (RollbackStepTaken /\ num_retries # net_conf.valid_retries) =>
            /\ pc' = "loop"
            /\ net_conf.valid_retries >= 0 =>
                   regressions' <= net_conf.valid_retries
        /\ pc \in {"final", "done"} =>
            /\ pc' \in {"final", "done"}
            /\ loss_lst' = loss_lst
            /\ dispenser' = dispenser
            /\ trainer' = trainer
            /\ step' = step ]_vars

\* the loop has ended early on the second regression in a row
C7_Witness ==
    /\ pc = "final"
    /\ step < num_steps
    /\ net_conf.valid_retries = 1
    /\ regressions = 2
    /\ trainer.halvings >= 2

\* C8: with valid_adapt enabled, a validation with current_error <=
\* validation_error (better or equal) is accepted: validation_error becomes
\* current_error, validation_step becomes step, num_retries becomes 0, the
\* validated checkpoint is saved, and step and the cursor are not rewound.
C8_Accept ==
    [][ /\ ( /\ pc = "validate" /\ pc' # pc
             /\ net_conf.valid_adapt = "True"
             /\ Evaluate(trainer) <= validation_error ) =>
            /\ pc' = "accept"
            /\ current_error' = Evaluate(trainer)
        /\ (pc = "accept" /\ pc' # pc) =>
            /\ current_error <= validation_error
            /\ validation_error' = current_error
            /\ validation_step' = step
            /\ num_retries' = 0
            /\ ckpt'.validated = SaveTrainer(trainer)
            /\ trainer' = trainer
            /\ step' = step
            /\ dispenser' = dispenser
            /\ pc' = "checkpoint" ]_vars

\* the first validation of the loop tied with the baseline and was accepted
C8_Witness ==
    /\ Validated
    /\ net_conf.valid_adapt = "True"
    /\ Len(val_error_list) = 2
    /\ val_error_list[1][2] = val_error_list[2][2]
    /\ validation_step = step
    /\ step > net_conf.starting_step
    /\ num_retries = 0

\* the set of the elements of a sequence
Range(q) == {q[i] : i \in DOMAIN q}

\* C9: decode returns a map whose keys are exactly the utterance ids read
\* before the first looped result; the utterance that comes with looped is
\* not decoded, every utterance is decoded exactly once, and the loop ends
\* at the first looped result.
C9_Decode ==
    /\ dpc \in {"loop", "done"} =>
          /\ DOMAIN nbests = returned
          /\ returned = Range(SubSeq(reader.utts, 1,
                                      IF dpc = "done" THEN Len(reader.utts)
                                                      ELSE reader.utt_ind))
          /\ \A u \in UttIds :
                ndecoded[u] = IF u \in returned THEN 1 ELSE 0
          /\ \A u \in returned : nbests[u] = Decoder(u)
    /\ dpc = "done" => reader.utt_ind = 1

\* decode is done after three utterances and a wrap that handed out a fourth
C9_Witness ==
    /\ dpc = "done"
    /\ Cardinality(returned) = MaxUtts
    /\ reader.sentinel \notin returned

\* the scenario of the spec's example
Scenario ==
    /\ net_conf.num_epochs = 1
    /\ net_conf.num_batches = 10
    /\ net_conf.valid_frequency = 5
    /\ net_conf.valid_adapt = "True"
    /\ net_conf.starting_step = 0
    /\ net_conf.valid_batches > 0

\* in the scenario, validation fires after the updates that bring step to 5
\* and to 10, and at no other step of the loop
ScenarioValidations ==
    /\ (pc = "loop" /\ pc' \in {"validate", "checkpoint"}) =>
           (pc' = "validate" <=> step' \in {5, 10})
    /\ pc = "validate" => step \in {5, 10}

\* the first validation at step 5 has found an error above the baseline
FirstRegression ==
    /\ RollbackStepTaken
    /\ step = 5
    /\ validation_step = 0
    /\ num_retries = 0
    /\ current_error > validation_error

\* C10 as stated: in the scenario validation fires at steps 5 and 10 only,
\* and a first error at step 5 above the baseline resets step to 0, halves
\* the learning rate once and resumes training from step 0 with
\* num_retries = 1.
C10_Original ==
    [][ Scenario =>
          /\ ScenarioValidations
          /\ FirstRegression =>
                /\ step' = 0
                /\ trainer'.halvings = 1
                /\ num_retries' = 1
                /\ pc' = "loop" ]_vars

\* C10 amended: as stated when valid_retries is not 0; with valid_retries = 0
\* step is reset to 0 and the learning rate halved once, but the loop ends
\* there with num_retries = 0.
C10_Scenario ==
    [][ Scenario =>
          /\ ScenarioValidations
          /\ FirstRegression =>
                /\ step' = 0
                /\ trainer'.halvings = 1
                /\ IF net_conf.valid_retries = 0
                   THEN num_retries' = 0 /\ pc' = "final"
                   ELSE num_retries' = 1 /\ pc' = "loop" ]_vars

\* the scenario after the first regression at step 5
C10_Witness ==
    /\ Scenario
    /\ pc = "loop"
    /\ step = 0
    /\ num_retries = 1
    /\ trainer.halvings = 1
    /\ Len(loss_lst) = 5
    /\ Len(val_error_list) = 2

\* ---------------------------------------------------------------------------
\* C11: the loop is left either by its test (step = num_steps) or by the break
\* of the regression branch (retries exhausted); every exit is followed by
\* exactly one save of 'final' and one write of the metric logs, nothing is
\* done after them, and after the break the parameters saved as 'final' are
\* those of the validated checkpoint.
EarlyExit == pc \in {"final", "done"} /\ step < num_steps

C11_ExitStep ==
    /\ pc' = "final" /\ pc # "final" =>
          \/ pc = "loop" /\ step = num_steps /\ UNCHANGED step
          \/ /\ pc = "rollback"
             /\ num_retries = net_conf.valid_retries
             /\ trainer'.params = ckpt'.validated.params
    /\ pc = "final" =>
          /\ pc' = "done"
          /\ ckpt.final = NoCkpt /\ ckpt.plot = <<>>
          /\ ckpt'.final = trainer
          /\ ckpt'.plot = <<loss_lst, val_loss_lst, val_error_list>>
          /\ UNCHANGED <<trainer, step, loss_lst>>
    /\ pc # "final" => ckpt'.final = ckpt.final /\ ckpt'.plot = ckpt.plot
    /\ pc # "done"

C11_FinalSave ==
    /\ [][C11_ExitStep]_vars
    /\ [](pc = "done" /\ EarlyExit => ckpt.final.params = ckpt.validated.params)
    /\ [](pc = "final" => <>(pc = "done"))

C11_Witness ==
    /\ pc = "done" /\ EarlyExit /\ rollbacks >= 2
    /\ ckpt.final # NoCkpt
    /\ Len(ckpt.plot[1]) > step

\* ---------------------------------------------------------------------------
\* C12: with valid_retries >= 0, valid_frequency >= 1 and a finite num_steps,
\* train terminates whatever the validation outcomes are: an acceptance
\* strictly increases validation_step, and at most valid_retries + 1
\* rollbacks happen between two acceptances.
C12_Terminates ==
    /\ [][pc = "accept" => validation_step' > validation_step]_vars
    /\ [](net_conf.valid_retries >= 0 =>
            regressions <= net_conf.valid_retries + 1)
    /\ (net_conf.valid_retries >= 0 /\ net_conf.valid_frequency >= 1
          => <>(pc = "done"))

C12_Witness ==
    /\ pc = "done" /\ step = num_steps
    /\ net_conf.valid_retries >= 0
    /\ rollbacks >= 2
    /\ validation_step > net_conf.starting_step

\* ---------------------------------------------------------------------------
\* C13: started with 0 <= starting_step <= num_steps, every state of the loop
\* has 0 <= step <= num_steps and, when validation is enabled,
\* starting_step <= validation_step <= step.
C13_StepBounds ==
    AfterSetup =>
        /\ 0 <= step /\ step <= num_steps
        /\ net_conf.valid_batches > 0 =>
              /\ net_conf.starting_step <= validation_step
              /\ validation_step <= step

C13_Witness ==
    /\ pc = "validate" /\ step = num_steps
    /\ net_conf.valid_batches > 0
    /\ validation_step > net_conf.starting_step
    /\ rollbacks >= 1

\* ---------------------------------------------------------------------------
\* the halvings the session starts the call with: those of the restored
\* checkpoint training/step<starting_step>, none after initialize()
StartHalvings ==
    IF net_conf.starting_step > 0
    THEN ckpt.training[net_conf.starting_step].halvings
    ELSE 0

\* C14 as stated: the halvings in effect in the session, and stored in the
\* validated checkpoint, equal the number of rollbacks performed so far.
C14_Original ==
    AfterSetup =>
        /\ trainer.halvings = rollbacks
        /\ val_data => ckpt.validated.halvings = rollbacks

\* C14: halvings accumulate and are never undone: the halvings in effect in
\* the session, and stored in the validated checkpoint, are those the session
\* was started with (restored from training/step<starting_step>, none in a
\* run from step 0) plus one per rollback of this call, the terminating one
\* included; an acceptance resets num_retries and leaves the halvings alone.
C14_Halvings ==
    /\ [](AfterSetup =>
            /\ trainer.halvings = StartHalvings + rollbacks
            /\ val_data => ckpt.validated.halvings = trainer.halvings)
    /\ [][ /\ AfterSetup /\ pc' # "start" =>
                trainer'.halvings >= trainer.halvings
           /\ pc = "rollback" /\ pc' # "start" =>
                /\ trainer'.halvings = trainer.halvings + 1
                /\ rollbacks' = rollbacks + 1
           /\ pc = "accept" /\ pc' # "start" =>
                /\ num_retries' = 0
                /\ trainer'.halvings = trainer.halvings ]_vars

C14_Witness ==
    /\ restarts > 0 /\ pc = "done" /\ EarlyExit
    /\ StartHalvings >= 1
    /\ rollbacks >= 1
    /\ trainer.halvings = StartHalvings + rollbacks

\* ---------------------------------------------------------------------------
\* the parameters the session holds when the loop is entered: their id was
\* recorded for the starting step, their error is the first validation entry
EntryParams ==
    [id |-> step_ids[net_conf.starting_step], err |-> val_error_list[1][2]]

\* C15: with validation enabled, train evaluates once at the starting step
\* before the first update, sets validation_step to the starting step and
\* num_retries to 0 and saves 'validated'; a regression at the first
\* validation trigger therefore takes step back to the starting step and
\* restores the parameters present at loop entry.
C15_InitialValidation ==
    /\ [](AfterSetup /\ net_conf.valid_batches > 0 /\ loss_lst = <<>> =>
            /\ step = net_conf.starting_step
            /\ val_error_list = << <<net_conf.starting_step, validation_error>> >>
            /\ val_loss_lst = <<net_conf.starting_step>>
            /\ validation_error = Evaluate(trainer)
            /\ validation_step = net_conf.starting_step
            /\ num_retries = 0
            /\ ckpt.validated = trainer
            /\ trainer.params = EntryParams)
    /\ [][pc = "rollback" /\ Len(val_error_list) = 2 =>
            /\ step' = net_conf.starting_step
            /\ trainer'.params = EntryParams
            /\ ckpt'.validated.params = EntryParams]_vars

C15_Witness ==
    /\ pc = "loop" /\ rollbacks = 1 /\ Len(val_error_list) = 2
    /\ net_conf.starting_step > 0
    /\ step = net_conf.starting_step
    /\ Len(loss_lst) >= 1
    /\ trainer.params = EntryParams
    /\ trainer.params.id # next_id - 1

\* ---------------------------------------------------------------------------
\* C16: with valid_adapt enabled, at every loop head the parameters in the
\* 'validated' slot are those the session had at step validation_step, and a
\* rollback restores the model of the step that step is reset to.
C16_ValidatedSlot ==
    /\ [](/\ pc = "loop"
          /\ net_conf.valid_batches > 0
          /\ net_conf.valid_adapt = "True"
          => /\ validation_step \in DOMAIN step_ids
             /\ ckpt.validated.params.id = step_ids[validation_step]
             /\ step = validation_step => trainer.params = ckpt.validated.params)
    /\ [][pc = "rollback" =>
            /\ step' = validation_step
            /\ trainer'.params.id = step_ids[step']
            /\ trainer'.params = ckpt.validated.params]_vars

C16_Witness ==
    /\ pc = "loop" /\ rollbacks >= 1 /\ regressions >= 1
    /\ net_conf.valid_adapt = "True"
    /\ validation_step > net_conf.starting_step
    /\ step = validation_step
    /\ trainer.params.id = step_ids[validation_step]
    /\ trainer.params.id # next_id - 1

\* ---------------------------------------------------------------------------
\* C17: training/step<N> is written only at the end of an iteration that did
\* not roll back, with N the step after the increment and N a positive
\* multiple of check_freq; an iteration that rolls back writes none; when the
\* validation and the checkpoint trigger fire on the same accepted step,
\* 'validated' is saved before training/step<N>.
C17_CheckpointStep ==
    /\ pc # "checkpoint" => ckpt'.training = ckpt.training
    /\ pc = "rollback" => pc' \in {"loop", "final"}
    /\ pc = "checkpoint" =>
          /\ step > 0 /\ step' = step
          /\ loss_lst # <<>> /\ loss_lst[Len(loss_lst)] = step - 1
          /\ ckpt'.training # ckpt.training =>
                /\ step % net_conf.check_freq = 0
                /\ ckpt'.training = DictSet(ckpt.training, step, trainer)
          /\ ( /\ net_conf.valid_batches > 0
               /\ net_conf.valid_adapt = "True"
               /\ step % net_conf.valid_frequency = 0 )
             => /\ validation_step = step
                /\ ckpt.validated = trainer
                /\ step \in DOMAIN ckpt.training => ckpt.training[step] # trainer

C17_Checkpoint == [][C17_CheckpointStep]_vars

C17_Witness ==
    /\ pc = "loop" /\ rollbacks >= 1
    /\ net_conf.valid_adapt = "True"
    /\ step > net_conf.starting_step
    /\ validation_step = step
    /\ step \in DOMAIN ckpt.training
    /\ ckpt.training[step] = trainer
    /\ ckpt.validated = trainer

\* ---------------------------------------------------------------------------
\* q is an initial part of r
IsPrefix(q, r) == Len(q) <= Len(r) /\ SubSeq(r, 1, Len(q)) = q

\* C18: the metric logs are append-only and a rollback leaves them unchanged;
\* the training-loss log gains exactly one entry, tagged with the step before
\* the increment, per update (discarded ones included), and the validation
\* logs gain exactly one entry per evaluation.
C18_LogStep ==
    /\ IsPrefix(loss_lst, loss_lst')
    /\ IsPrefix(val_loss_lst, val_loss_lst')
    /\ IsPrefix(val_error_list, val_error_list')
    /\ pc = "rollback" =>
          UNCHANGED <<loss_lst, val_loss_lst, val_error_list>>
    /\ IF trainer'.params # trainer.params /\ pc = "loop"
       THEN /\ loss_lst' = Append(loss_lst, step)
            /\ step' = step + 1
       ELSE loss_lst' = loss_lst
    /\ IF pc = "validate" \/ (pc = "start" /\ val_data')
       THEN /\ val_error_list' =
                  Append(val_error_list, <<step', Evaluate(trainer')>>)
            /\ val_loss_lst' = Append(val_loss_lst, step')
       ELSE UNCHANGED <<val_loss_lst, val_error_list>>

C18_Logs == [][C18_LogStep]_vars

C18_Witness ==
    /\ pc = "loop" /\ rollbacks >= 1
    /\ Len(loss_lst) > step - net_conf.starting_step
    /\ Len(val_error_list) >= 3
    /\ \E i, j \in 1..Len(loss_lst) : i < j /\ loss_lst[i] = loss_lst[j]
    /\ \E i \in 2..Len(val_error_list) :
          val_error_list[i][1] = val_error_list[i - 1][1]

\* ---------------------------------------------------------------------------
\* C19: with valid_batches <= 0 validation is disabled for the whole run: no
\* evaluation, rollback, halving or save of 'validated' happens, step grows
\* by exactly 1 per iteration, and the loop makes exactly
\* num_steps - starting_step updates and is left with step = num_steps.
C19_Disabled ==
    /\ [](AfterSetup /\ net_conf.valid_batches <= 0 =>
            /\ val_data = FALSE
            /\ pc \notin {"validate", "rollback", "accept"}
            /\ val_error_list = <<>> /\ val_loss_lst = <<>>
            /\ ckpt.validated = NoCkpt
            /\ rollbacks = 0
            /\ trainer.halvings = StartHalvings
            /\ Len(loss_lst) = step - net_conf.starting_step
            /\ pc \in {"final", "done"} =>
                  /\ step = num_steps
                  /\ Len(loss_lst) = num_steps - net_conf.starting_step)
    /\ [][AfterSetup /\ net_conf.valid_batches <= 0 =>
            /\ step' = IF pc = "loop" /\ pc' # "final" THEN step + 1 ELSE step
            /\ pc = "loop" /\ pc' # "final" => pc' = "checkpoint"]_vars

C19_Witness ==
    /\ pc = "done" /\ net_conf.valid_batches < 0
    /\ net_conf.valid_adapt = "True"
    /\ net_conf.starting_step > 0
    /\ net_conf.valid_frequency = 3
    /\ step = num_steps /\ num_steps = 4
    /\ Len(loss_lst) = 2
    /\ ckpt.final # NoCkpt

====
